---- MODULE Spec2Model ----
(***************************************************************************)
(* AvroAttrsBridge (openedx_events/avro_attrs_bridge.py): derivation of an *)
(* Avro schema from attrs record classes, marshalling of instances to wire *)
(* maps, and reconciliation of decoded wire maps into instances.           *)
(*                                                                         *)
(* Python values are tagged records: k is the runtime type tag, v a scalar *)
(* payload kept as a string, f the field map of an attrs instance or of a  *)
(* dict.  Type identities (class objects) are strings; the __name__ of an  *)
(* attrs class is a separate attribute of the class, so that two distinct  *)
(* classes can share one name.                                             *)
(***************************************************************************)
EXTENDS Integers, Sequences, FiniteSets, TLC

(***************************************************************************)
(* Bounds of the model.                                                    *)
(***************************************************************************)
\* How deep the instances handed to the bridge nest records.
MaxNest == 2

(***************************************************************************)
(* Python values.                                                          *)
(***************************************************************************)
NoneV == [k |-> "NoneType"]
NOTHING == [k |-> "NOTHING"]
StrV(s) == [k |-> "str", v |-> s]
IntV(s) == [k |-> "int", v |-> s]
DatetimeV(s) == [k |-> "datetime", v |-> s]
CourseKeyV(s) == [k |-> "CourseKey", v |-> s]
Obj(c, fm) == [k |-> "obj", cls |-> c, f |-> fm]
Dict(fm) == [k |-> "dict", f |-> fm]

\* type(value): the class object of a value.
TypeOf(val) == IF val.k = "obj" THEN val.cls ELSE val.k

\* dict operations used by the bridge: del d[key] and d[key] = val.
DictDel(fm, key) == [x \in (DOMAIN fm) \ {key} |-> fm[x]]
DictSet(fm, key, val) == [x \in (DOMAIN fm) \cup {key} |-> IF x = key THEN val ELSE fm[x]]

\* The outcome of a call: err is "" when it returned, else the exception.
Ok(val) == [err |-> "", val |-> val]
Raise(e) == [err |-> e, val |-> NoneV]

\* The exceptions the bridge and the constructors it calls raise.
UnsupportedTypeError == "TypeError: object type is not supported by AvroAttrsBridge"
ContainerError == "Exception: item type for container object not specified"
DeserializeTypeError == "TypeError: unable to deserialize, please add extension"
MissingArgumentError == "TypeError: missing required argument"
UnexpectedArgumentError == "TypeError: unexpected keyword argument"
NotAMappingError == "TypeError: not a mapping"
TypeErrors ==
  { UnsupportedTypeError, DeserializeTypeError, MissingArgumentError,
    UnexpectedArgumentError, NotAMappingError, "TypeError" }

(***************************************************************************)
(* The record classes of the event catalog (attrs classes).                *)
(***************************************************************************)
Attribute(n, t, d) == [name |-> n, type |-> t, default |-> d]

AttrsClasses ==
  [ SubTestData |->
      [name |-> "SubTestData",
       attrs |-> << Attribute("sub_name", "str", NOTHING),
                    Attribute("course_id", "str", NOTHING) >>],
    OtherSubTestData |->
      [name |-> "SubTestData",
       attrs |-> << Attribute("user_id", "int", NOTHING),
                    Attribute("extra", "UnExtendedClass", NoneV) >>],
    TestData |->
      [name |-> "TestData",
       attrs |-> << Attribute("sub_name", "str", NOTHING),
                    Attribute("course_id", "str", NOTHING) >>],
    TestDataAdded |->
      [name |-> "TestData",
       attrs |-> << Attribute("sub_name", "str", NOTHING),
                    Attribute("course_id", "str", NOTHING),
                    Attribute("added_key", "str", StrV("default_value")) >>],
    TestDataRemoved |->
      [name |-> "TestData",
       attrs |-> << Attribute("sub_name", "str", NOTHING),
                    Attribute("course_id", "str", NOTHING),
                    Attribute("removed_key", "str", NOTHING) >>],
    CourseData |->
      [name |-> "CourseData",
       attrs |-> << Attribute("course_key", "CourseKey", NOTHING),
                    Attribute("start", "datetime", NoneV) >>],
    CourseEnrollmentData |->
      [name |-> "CourseEnrollmentData",
       attrs |-> << Attribute("user", "SubTestData", NOTHING),
                    Attribute("mode", "str", NOTHING),
                    Attribute("creation_date", "datetime", NOTHING),
                    Attribute("created_by", "SubTestData", NoneV) >>],
    Node |->
      [name |-> "Node",
       attrs |-> << Attribute("user_id", "int", NOTHING),
                    Attribute("next", "Node", NoneV) >>],
    Ping |->
      [name |-> "Ping",
       attrs |-> << Attribute("user_id", "int", NOTHING),
                    Attribute("pong", "Pong", NoneV) >>],
    Pong |->
      [name |-> "Pong",
       attrs |-> << Attribute("ping", "Ping", NoneV) >>],
    Collide |->
      [name |-> "Collide",
       attrs |-> << Attribute("sub_test", "SubTestData", NOTHING),
                    Attribute("uber_sub_test", "OtherSubTestData", NOTHING) >>],
    WithList |->
      [name |-> "WithList",
       attrs |-> << Attribute("name", "str", NOTHING),
                    Attribute("items", "list", NOTHING),
                    Attribute("custom", "UnExtendedClass", NOTHING) >>],
    WithCustom |->
      [name |-> "WithCustom",
       attrs |-> << Attribute("name", "str", NOTHING),
                    Attribute("when", "SubDatetime", NoneV),
                    Attribute("items", "dict", NoneV) >>],
    Deep |->
      [name |-> "Deep",
       attrs |-> << Attribute("user_id", "int", IntV("0")),
                    Attribute("inner", "WithCustom", NOTHING) >>] ]

\* hasattr(t, "__attrs_attrs__")
HasAttrs(t) == t \in DOMAIN AttrsClasses

(***************************************************************************)
(* OpenEdxPublicSignal.init_data: the ordered mapping key -> type of the   *)
(* signals a bridge can be built for.                                      *)
(***************************************************************************)
Key(n, t) == [name |-> n, type |-> t]

Signals ==
  [ SIG_TEST |-> << Key("test_data", "TestData") >>,
    SIG_ADDED |-> << Key("test_data", "TestDataAdded") >>,
    SIG_REMOVED |-> << Key("test_data", "TestDataRemoved") >>,
    SIG_SIMPLE |-> << Key("user", "SubTestData"), Key("number", "int"),
                      Key("string", "str"), Key("other", "SubTestData") >>,
    SIG_WHEN |-> << Key("when", "datetime"), Key("number", "int") >>,
    SIG_BAD |-> << Key("unextended_class", "UnExtendedClass") >> ]

(***************************************************************************)
(* PYTHON_TYPE_TO_AVRO_MAPPING (openedx_events/avro_types.py).             *)
(***************************************************************************)
PYTHON_TYPE_TO_AVRO_MAPPING ==
  [ bool |-> "boolean", int |-> "long", float |-> "double", str |-> "string",
    dict |-> "record", list |-> "array" ]

(***************************************************************************)
(* Extensions (openedx_events/avro_attrs_bridge_extensions.py): an object  *)
(* with record_fields(), serialize(obj) and deserialize(data).  The wire   *)
(* form of a value is given by a table, so that serialize is a conversion  *)
(* and deserialize its partial inverse.                                    *)
(***************************************************************************)
DatetimeAvroAttrsBridgeExtension ==
  [id |-> "DatetimeAvroAttrsBridgeExtension", cls |-> "datetime", fragment |-> "string", wire |-> "str"]
CourseKeyAvroAttrsBridgeExtension ==
  [id |-> "CourseKeyAvroAttrsBridgeExtension", cls |-> "CourseKey", fragment |-> "string", wire |-> "str"]
\* Caller-written extensions: datetime as epoch seconds, int as text, and an
\* extension for the attrs class SubTestData.
EpochExtension ==
  [id |-> "EpochExtension", cls |-> "datetime", fragment |-> "long", wire |-> "int"]
IntTextExtension ==
  [id |-> "IntTextExtension", cls |-> "int", fragment |-> "string", wire |-> "str"]
SubTestDataExtension ==
  [id |-> "SubTestDataExtension", cls |-> "obj", fragment |-> "string", wire |-> "str"]
ListExtension ==
  [id |-> "ListExtension", cls |-> "list", fragment |-> "bytes", wire |-> "bytes"]

\* The text each extension writes for a value.
WireText ==
  [ DatetimeAvroAttrsBridgeExtension |-> [t1 |-> "2021-01-01T00:00:00", t2 |-> "2022-02-02T00:00:00"],
    CourseKeyAvroAttrsBridgeExtension |-> [ck1 |-> "course-v1:edX+DemoX.1+2014"],
    EpochExtension |-> [t1 |-> "1609459200", t2 |-> "1643760000"],
    IntTextExtension |-> ("1" :> "one") @@ ("0" :> "zero"),
    ListExtension |-> [l1 |-> "a,b"] ]

ExtensionSerialize(ext, val) ==
  IF ext.id = "SubTestDataExtension"
    THEN IF val.k = "obj" /\ val.cls = "SubTestData"
           THEN Ok([k |-> "str", v |-> val.f["sub_name"].v])
           ELSE Raise("AttributeError")
  ELSE IF val.k # ext.cls \/ val.v \notin DOMAIN WireText[ext.id]
    THEN Raise("AttributeError")
  ELSE Ok([k |-> ext.wire, v |-> WireText[ext.id][val.v]])

ExtensionDeserialize(ext, data) ==
  IF ext.id = "SubTestDataExtension"
    THEN IF data.k = "str"
           THEN Ok(Obj("SubTestData", [sub_name |-> data, course_id |-> data]))
           ELSE Raise("TypeError")
  ELSE IF data.k # ext.wire
    THEN Raise("TypeError")
  ELSE IF \E n \in DOMAIN WireText[ext.id] : WireText[ext.id][n] = data.v
    THEN Ok([k |-> ext.cls,
             v |-> CHOOSE n \in DOMAIN WireText[ext.id] : WireText[ext.id][n] = data.v])
  ELSE Raise("ValueError")

\* AvroAttrsBridge.default_extensions as the class declares it.
DefaultExtensions == [datetime |-> DatetimeAvroAttrsBridgeExtension]

\* extensions=None: the caller passes no dict.
NoExtensions == [x \in {} |-> DatetimeAvroAttrsBridgeExtension]

(***************************************************************************)
(* The wire schema.  A type is a bare string (an Avro primitive or the     *)
(* name of a record defined earlier), a record definition, or the union    *)
(* ["null", T].  A field has a name, a type and possibly a "default".      *)
(***************************************************************************)
Named(s) == [k |-> "name", v |-> s]
Union(t) == [k |-> "union", of |-> t]
RecordNode(n, fs) == [k |-> "record", name |-> n, fields |-> fs]
NoDefault == "<absent>"
Field(n, t, d) == [name |-> n, type |-> t, default |-> d]
NoType == Named("")
NoSchema == [k |-> "unassigned"]

AvroPrimitives == {"null", "boolean", "int", "long", "float", "double", "bytes", "string"}

\* A variant of line 152 that finds an extension only for a type that is
\* neither in the catalog nor an attrs class: the extension branch comes last.
ExtensionsGetLast(extensions, t) ==
  IF t \in DOMAIN extensions /\ t \notin DOMAIN PYTHON_TYPE_TO_AVRO_MAPPING /\ ~HasAttrs(t)
    THEN << extensions[t] >> ELSE << >>

\* self.extensions.get(t, None): the entry stored under exactly the key t,
\* as a sequence of at most one extension.
ExtensionsGet(extensions, t) ==
  IF t \in DOMAIN extensions THEN << extensions[t] >> ELSE << >>

(***************************************************************************)
(* Schema derivation.  Each call of _get_object_fields is recorded as a    *)
(* visit, in the order in which the calls return.                          *)
(***************************************************************************)
Visit(n, t, ifd, d, seen, lvl, out, e, fld) ==
  [name |-> n, type |-> t, if_default |-> ifd, default |-> d, seen |-> seen,
   level |-> lvl, out |-> out, err |-> e, field |-> fld]

Inner(e, out, t, names, trace) ==
  [err |-> e, out |-> out, type |-> t, names |-> names, trace |-> trace]

\* A variant of line 174 that takes every name for seen once any name is.
SeenAny(names, name) == names # {}

\* Line 174: _object_type.__name__ in self.schema_record_names.
Seen(names, name) == name \in names

\* A variant of line 159 that takes no catalog kind for a container.
NeverContainer(kind) == FALSE

\* Line 159: the catalog kinds that stand for containers.
IsContainerKind(kind) == kind \in {"record", "array"}

\* A variant of lines 186-189 that takes a type it does not know for text.
AssumeString(names) == Inner("", "primitive", Named("string"), names, << >>)

\* Lines 186-189: the type is neither extended, nor in the catalog, nor an
\* attrs class.
UnsupportedType(names) == Inner(UnsupportedTypeError, "unsupported", NoType, names, << >>)

\* A variant of lines 194-196 that leaves a field whose default is None as
\* it is.
WrapUnlessNone(n, t, if_default, default) ==
  IF if_default /\ default # NOTHING /\ default # NoneV
    THEN Field(n, Union(t), "null")
    ELSE Field(n, t, NoDefault)

\* Lines 190-196: a field is made nullable with a null default when it was
\* declared with any default.
WrapDefault(n, t, if_default, default) ==
  IF if_default /\ default # NOTHING
    THEN Field(n, Union(t), "null")
    ELSE Field(n, t, NoDefault)

RECURSIVE get_object_fields(_, _, _, _, _, _, _)
RECURSIVE fields_loop(_, _, _, _, _, _, _, _)

\* One turn of the loop: r is what _get_object_fields returned or raised.
fields_step(extensions, items, i, if_default, fields, trace, level, r) ==
  IF r.err # ""
    THEN [err |-> r.err, fields |-> fields, names |-> r.names, trace |-> trace \o r.trace]
    ELSE fields_loop(extensions, r.names, items, i + 1, if_default,
                     Append(fields, r.field), trace \o r.trace, level)

\* The loop of _record_fields_for_attrs_class (if_default = TRUE) and of
\* _record_fields_from_data_dict (if_default = FALSE) over the declarations.
fields_loop(extensions, names, items, i, if_default, fields, trace, level) ==
  IF i > Len(items)
    THEN [err |-> "", fields |-> fields, names |-> names, trace |-> trace]
    ELSE fields_step(extensions, items, i, if_default, fields, trace, level,
                     get_object_fields(extensions, names, items[i].name, items[i].type,
                                       if_default, items[i].default, level))

\* The record field built around the fields the loop r collected.
RecordField(record_name, field_name, r) ==
  [err |-> r.err, field |-> Field(field_name, RecordNode(record_name, r.fields), NoDefault),
   names |-> r.names, trace |-> r.trace]

record_fields_for_attrs_class(extensions, names, attrs_class, field_name, level) ==
  RecordField(AttrsClasses[attrs_class].name, field_name,
              fields_loop(extensions, names, AttrsClasses[attrs_class].attrs, 1, TRUE,
                          << >>, << >>, level))

\* Lines 179-183: the record r derived for a nested attrs class.
DefinedRecord(r) == Inner(r.err, "definition", r.field.type, r.names, r.trace)

\* Lines 190-198: the field returned for the outcome of lines 151-189.
ReturnField(object_name, object_type, if_default, default, names, level, inner) ==
  LET field == IF inner.err # ""
                 THEN Field(object_name, NoType, NoDefault)
                 ELSE WrapDefault(object_name, inner.type, if_default, default)
  IN [err |-> inner.err, field |-> field, names |-> inner.names,
      trace |-> Append(inner.trace,
                       Visit(object_name, object_type, if_default, default, names,
                             level, inner.out, inner.err, field))]

get_object_fields(extensions, names, object_name, object_type, if_default, default, level) ==
  ReturnField(object_name, object_type, if_default, default, names, level,
    IF ExtensionsGet(extensions, object_type) # << >>
      THEN Inner("", "extension", Named(ExtensionsGet(extensions, object_type)[1].fragment),
                 names, << >>)
    ELSE IF object_type \in DOMAIN PYTHON_TYPE_TO_AVRO_MAPPING
      THEN IF IsContainerKind(PYTHON_TYPE_TO_AVRO_MAPPING[object_type])
             THEN Inner(ContainerError, "container", NoType, names, << >>)
             ELSE Inner("", "primitive", Named(PYTHON_TYPE_TO_AVRO_MAPPING[object_type]),
                        names, << >>)
    ELSE IF HasAttrs(object_type)
      THEN IF Seen(names, AttrsClasses[object_type].name)
             THEN Inner("", "reference", Named(AttrsClasses[object_type].name), names, << >>)
             ELSE DefinedRecord(record_fields_for_attrs_class(
                                  extensions, names \cup {AttrsClasses[object_type].name},
                                  object_type, object_name, level + 1))
    ELSE UnsupportedType(names))

\* The fixed fields of the CloudEvent envelope.
EnvelopeFields ==
  << Field("id", Named("string"), NoDefault),
     Field("type", Named("string"), NoDefault),
     Field("specversion", Named("string"), "1.0"),
     Field("time", Named("string"), NoDefault),
     Field("source", Named("string"), NoDefault),
     Field("sourcehost", Named("string"), NoDefault),
     Field("minorversion", Named("int"), NoDefault) >>

\* The envelope record around the data field r.
BaseSchema(envelope_name, envelope_fields, r) ==
  [err |-> r.err, schema |-> RecordNode(envelope_name, Append(envelope_fields, r.field)),
   names |-> r.names, trace |-> r.trace]

attrs_to_avro_schema(extensions, names, attrs_cls) ==
  BaseSchema("CloudEvent", EnvelopeFields,
             record_fields_for_attrs_class(extensions, names, attrs_cls, "data", 1))

InitData(signal_cls) ==
  [i \in 1..Len(Signals[signal_cls]) |->
     Attribute(Signals[signal_cls][i].name, Signals[signal_cls][i].type, NoneV)]

record_fields_from_data_dict(extensions, names, signal_cls) ==
  RecordField("OpenEdxPublicSignal", "data",
              fields_loop(extensions, names, InitData(signal_cls), 1, FALSE, << >>, << >>, 1))

signal_to_avro_schema(extensions, names, signal_cls) ==
  BaseSchema("OpenedxSignal", << >>,
             record_fields_from_data_dict(extensions, names, signal_cls))

(***************************************************************************)
(* fastavro.parse_schema: a schema is rejected when it defines a record    *)
(* name twice or names a record that no earlier definition introduced.     *)
(***************************************************************************)
RECURSIVE SchemaEvents(_)
RECURSIVE FieldsEvents(_, _)

FieldsEvents(fs, i) ==
  IF i > Len(fs) THEN << >> ELSE SchemaEvents(fs[i].type) \o FieldsEvents(fs, i + 1)

\* The record definitions and name references of a type, in document order.
SchemaEvents(t) ==
  IF t.k = "name"
    THEN IF t.v \in AvroPrimitives THEN << >> ELSE << [e |-> "ref", n |-> t.v] >>
  ELSE IF t.k = "union"
    THEN SchemaEvents(t.of)
  ELSE << [e |-> "def", n |-> t.name] >> \o FieldsEvents(t.fields, 1)

WellFormedEvents(ev) ==
  \A i \in 1..Len(ev) :
    IF ev[i].e = "def"
      THEN \A j \in 1..(i - 1) : ~(ev[j].e = "def" /\ ev[j].n = ev[i].n)
      ELSE \E j \in 1..(i - 1) : ev[j].e = "def" /\ ev[j].n = ev[i].n

parse_schema(schema) ==
  IF WellFormedEvents(SchemaEvents(schema)) THEN "" ELSE "SchemaParseException"

(***************************************************************************)
(* Marshalling.                                                            *)
(***************************************************************************)
\* The attributes of a class, by name.
AttrNames(attrs_cls) ==
  {AttrsClasses[attrs_cls].attrs[i].name : i \in 1..Len(AttrsClasses[attrs_cls].attrs)}
AttrNamed(attrs_cls, n) ==
  CHOOSE a \in {AttrsClasses[attrs_cls].attrs[i] : i \in 1..Len(AttrsClasses[attrs_cls].attrs)} :
    a.name = n

\* The first exception of a sequence of outcomes, "" when there is none.
FirstError(res) ==
  IF \E i \in 1..Len(res) : res[i].err # ""
    THEN res[CHOOSE i \in 1..Len(res) :
               res[i].err # "" /\ \A j \in 1..(i - 1) : res[j].err = ""].err
    ELSE ""

\* _extension_serializer(_, field, value): keyed by the declared field type.
extension_serializer(extensions, field, value) ==
  LET extension == ExtensionsGet(extensions, field.type)
  IN IF extension # << >> THEN ExtensionSerialize(extension[1], value) ELSE Ok(value)

RECURSIVE asdict(_, _)

\* The value asdict stores for the outcome s of the serializer: an attrs
\* instance is expanded in turn.
Expanded(extensions, s) ==
  IF s.err = "" /\ s.val.k = "obj" THEN asdict(extensions, s.val) ELSE s

\* The dict asdict returns for the outcomes res of its attributes, in order.
AsDict(attrs_cls, res) ==
  IF FirstError(res) # ""
    THEN Raise(FirstError(res))
    ELSE Ok(Dict([n \in AttrNames(attrs_cls) |->
                    res[CHOOSE i \in 1..Len(res) :
                          AttrsClasses[attrs_cls].attrs[i].name = n].val]))

\* attr.asdict(inst, value_serializer=self._extension_serializer): the
\* serializer is applied to each attribute's value, and a value that is then
\* still an attrs instance is expanded in turn.
asdict(extensions, inst) ==
  AsDict(inst.cls,
         [i \in 1..Len(AttrsClasses[inst.cls].attrs) |->
            Expanded(extensions,
                     extension_serializer(extensions, AttrsClasses[inst.cls].attrs[i],
                                          inst.f[AttrsClasses[inst.cls].attrs[i].name]))])

\* _extension_signal_serializer(value): keyed by the runtime type.
extension_signal_serializer(extensions, value) ==
  IF value.k = "obj"
    THEN asdict(extensions, value)
    ELSE LET extension == ExtensionsGet(extensions, TypeOf(value))
         IN IF extension # << >> THEN ExtensionSerialize(extension[1], value) ELSE Ok(value)

JsonNative == {"NoneType", "str", "int", "bool", "float"}

RECURSIVE json_roundtrip(_, _)

\* The dict read back for the outcomes res of a dict's values.
JsonDict(res) ==
  IF \E n \in DOMAIN res : res[n].err # ""
    THEN Raise(res[CHOOSE n \in DOMAIN res : res[n].err # ""].err)
    ELSE Ok(Dict([n \in DOMAIN res |-> res[n].val]))

\* What the encoder does with d, the outcome of default(value).
JsonDefault(extensions, value, d) ==
  IF d.err # "" THEN d
  ELSE IF d.val = value THEN Raise("ValueError: Circular reference detected")
  ELSE json_roundtrip(extensions, d.val)

\* json.loads(json.dumps(value, default=self._extension_signal_serializer)):
\* the json types are written as they are, and default is called for any
\* other value; a default that returns its argument is a circular reference.
json_roundtrip(extensions, value) ==
  IF value.k \in JsonNative
    THEN Ok(value)
  ELSE IF value.k = "dict"
    THEN JsonDict([n \in DOMAIN value.f |-> json_roundtrip(extensions, value.f[n])])
  ELSE JsonDefault(extensions, value, extension_signal_serializer(extensions, value))

\* default_config; no caller of the model overrides it.
default_config ==
  [source |-> "/openedx/unknown/avro_attrs_bridge", sourcehost |-> "unknown",
   type |-> "org.openedx.test.test.test.v0"]

\* Lines 241-250: the envelope around obj_as_dict.
AvroRecord(config, obj_as_dict, event_id, event_timestamp) ==
  IF obj_as_dict.err # "" THEN obj_as_dict
  ELSE Ok(Dict([id |-> StrV(event_id), type |-> StrV(config.type),
                time |-> StrV(event_timestamp), source |-> StrV(config.source),
                sourcehost |-> StrV(config.sourcehost), minorversion |-> IntV("0"),
                data |-> obj_as_dict.val]))

\* to_dict(obj, event_overrides) with event_overrides = {"id": id, "time": time}.
to_dict(extensions, config, obj, event_id, event_timestamp) ==
  AvroRecord(config, asdict(extensions, obj), event_id, event_timestamp)

(***************************************************************************)
(* Reconciliation.                                                         *)
(***************************************************************************)
\* A variant of the constructor that takes None for any attribute it is not
\* given, and overlooks the arguments it does not declare.
ConstructLenient(attrs_cls, fm) ==
  Ok(Obj(attrs_cls, [n \in AttrNames(attrs_cls) |-> IF n \in DOMAIN fm THEN fm[n] ELSE NoneV]))

\* attrs_cls(**data): the constructor attrs generates.
Construct(attrs_cls, fm) ==
  LET attrs == AttrsClasses[attrs_cls].attrs
  IN IF (DOMAIN fm) \ AttrNames(attrs_cls) # {}
       THEN Raise(UnexpectedArgumentError)
     ELSE IF \E i \in 1..Len(attrs) : attrs[i].default = NOTHING /\ attrs[i].name \notin DOMAIN fm
       THEN Raise(MissingArgumentError)
     ELSE Ok(Obj(attrs_cls,
                 [n \in AttrNames(attrs_cls) |->
                    IF n \in DOMAIN fm THEN fm[n] ELSE AttrNamed(attrs_cls, n).default]))

RECURSIVE dict_to_attrs(_, _, _)
RECURSIVE reconcile_loop(_, _, _, _)

\* A variant of line 346 that takes no value for None, so that a null goes
\* on to the branches of lines 352-368.
NeverNone(sub_data) == FALSE

\* Line 346: sub_data is None.
IsNone(sub_data) == sub_data = NoneV

\* A variant of lines 346-350 that leaves a key that holds None in data.
KeepNone(fm, attribute) == fm

\* Lines 346-350: a key that holds None is deleted when the attribute has a
\* default, and is left as it is when not.
DropNone(fm, attribute) ==
  IF attribute.default # NOTHING THEN DictDel(fm, attribute.name) ELSE fm

\* data[attribute.name] = r, where r is what the conversion of the value
\* returned or raised; the loop then goes on.
reconcile_set(extensions, fm, attrs, i, r) ==
  IF r.err # "" THEN [err |-> r.err, fm |-> fm]
  ELSE reconcile_loop(extensions, DictSet(fm, attrs[i].name, r.val), attrs, i + 1)

\* The loop of dict_to_attrs over the declared attributes; fm is data as the
\* loop has changed it so far.
reconcile_loop(extensions, fm, attrs, i) ==
  IF i > Len(attrs) THEN [err |-> "", fm |-> fm]
  ELSE IF attrs[i].name \notin DOMAIN fm
    THEN reconcile_loop(extensions, fm, attrs, i + 1)
  ELSE IF IsNone(fm[attrs[i].name])
    THEN reconcile_loop(extensions, DropNone(fm, attrs[i]), attrs, i + 1)
  ELSE IF HasAttrs(attrs[i].type)
    THEN reconcile_set(extensions, fm, attrs, i,
                       dict_to_attrs(extensions, fm[attrs[i].name], attrs[i].type))
  ELSE IF ExtensionsGet(extensions, attrs[i].type) # << >>
    THEN reconcile_set(extensions, fm, attrs, i,
                       ExtensionDeserialize(ExtensionsGet(extensions, attrs[i].type)[1],
                                            fm[attrs[i].name]))
  ELSE IF attrs[i].type \notin DOMAIN PYTHON_TYPE_TO_AVRO_MAPPING
    THEN [err |-> DeserializeTypeError, fm |-> fm]
  ELSE reconcile_loop(extensions, fm, attrs, i + 1)

\* Line 370 after the loop r: attrs_cls(**data).
Instantiate(attrs_cls, r, made) ==
  IF r.err # ""
    THEN [err |-> r.err, val |-> NoneV, data |-> Dict(r.fm)]
    ELSE [err |-> made.err, val |-> made.val, data |-> Dict(r.fm)]

reconciled(attrs_cls, r) == Instantiate(attrs_cls, r, Construct(attrs_cls, r.fm))

\* dict_to_attrs(data, attrs_cls); data is left as fm when the call ends.
dict_to_attrs(extensions, data, attrs_cls) ==
  IF data.k # "dict"
    THEN [err |-> NotAMappingError, val |-> NoneV, data |-> data]
    ELSE reconciled(attrs_cls,
                    reconcile_loop(extensions, data.f, AttrsClasses[attrs_cls].attrs, 1))

RECURSIVE signal_loop(_, _, _, _)

\* data[key] = r, where r is what the conversion returned or raised.
signal_set(extensions, fm, items, i, r) ==
  IF r.err # "" THEN [err |-> r.err, fm |-> fm, hit |-> FALSE]
  ELSE signal_loop(extensions, DictSet(fm, items[i].name, r.val), items, i + 1)

\* Line 336: breakpoint() is reached, and the loop r goes on from there.
signal_break(r) == [err |-> r.err, fm |-> r.fm, hit |-> TRUE]

\* The loop of dict_to_signal over init_data; hit tells that breakpoint()
\* was reached.
signal_loop(extensions, fm, items, i) ==
  IF i > Len(items) THEN [err |-> "", fm |-> fm, hit |-> FALSE]
  ELSE IF items[i].name \notin DOMAIN fm
    THEN signal_loop(extensions, fm, items, i + 1)
  ELSE IF HasAttrs(items[i].type)
    THEN signal_set(extensions, fm, items, i,
                    dict_to_attrs(extensions, fm[items[i].name], items[i].type))
  ELSE IF TypeOf(fm[items[i].name]) = items[i].type
    THEN signal_loop(extensions, fm, items, i + 1)
  ELSE IF ExtensionsGet(extensions, items[i].type) # << >>
    THEN signal_set(extensions, fm, items, i,
                    ExtensionDeserialize(ExtensionsGet(extensions, items[i].type)[1],
                                         fm[items[i].name]))
  ELSE signal_break(signal_loop(extensions, fm, items, i + 1))

signal_result(r) ==
  [err |-> r.err, val |-> IF r.err = "" THEN Dict(r.fm) ELSE NoneV, hit |-> r.hit]

\* dict_to_signal(data): returns data itself, changed in place.
dict_to_signal(extensions, data, signal_cls) ==
  IF data.k # "dict"
    THEN [err |-> NotAMappingError, val |-> NoneV, hit |-> FALSE]
    ELSE signal_result(signal_loop(extensions, data.f, Signals[signal_cls], 1))

(***************************************************************************)
(* The codec (fastavro.schemaless_writer and schemaless_reader).  A        *)
(* payload is the sequence of the scalars written, in the order of the     *)
(* writer's schema, with the branch index before the value of a union: it  *)
(* holds no field names, and is read back by the schema it was written by. *)
(***************************************************************************)
Branch(i) == [k |-> "branch", v |-> i]

PrimKind(p) ==
  CASE p = "null" -> "NoneType"
    [] p = "string" -> "str"
    [] p \in {"int", "long"} -> "int"
    [] p = "boolean" -> "bool"
    [] p \in {"float", "double"} -> "float"
    [] OTHER -> "bytes"

RECURSIVE RecordDefs(_)
RECURSIVE FieldsDefs(_, _)

FieldsDefs(fs, i) ==
  IF i > Len(fs) THEN {} ELSE RecordDefs(fs[i].type) \cup FieldsDefs(fs, i + 1)

\* The named records a schema defines.
RecordDefs(t) ==
  IF t.k = "name" THEN {}
  ELSE IF t.k = "union" THEN RecordDefs(t.of)
  ELSE {t} \cup FieldsDefs(t.fields, 1)

IsReference(t) == t.k = "name" /\ t.v \notin AvroPrimitives
Known(defs, t) == ~IsReference(t) \/ \E r \in defs : r.name = t.v
Resolve(defs, t) == IF IsReference(t) THEN CHOOSE r \in defs : r.name = t.v ELSE t

DefaultValue(field) == IF field.default = "null" THEN NoneV ELSE StrV(field.default)

WriteError == "ValueError: datum is not an example of the schema"
ReadError == "EOFError: payload does not match the writer schema"
ResolutionError == "SchemaResolutionError"
Written(e, out) == [err |-> e, out |-> out]
Decoded(e, val, rest) == [err |-> e, val |-> val, rest |-> rest]

RECURSIVE write_data(_, _, _)
RECURSIVE write_record(_, _, _, _)

\* The tokens of a field, r, followed by those of the fields after it.
write_join(r, more) ==
  IF r.err # "" THEN r
  ELSE IF more.err # "" THEN more
  ELSE Written("", r.out \o more.out)

write_record(defs, fields, fm, i) ==
  IF i > Len(fields) THEN Written("", << >>)
  ELSE IF fields[i].name \notin DOMAIN fm /\ fields[i].default = NoDefault
          /\ fields[i].type.k # "union"
    THEN Written(WriteError, << >>)
  ELSE write_join(write_data(defs, fields[i].type,
                             IF fields[i].name \in DOMAIN fm THEN fm[fields[i].name]
                             ELSE IF fields[i].default = NoDefault THEN NoneV
                             ELSE DefaultValue(fields[i])),
                  write_record(defs, fields, fm, i + 1))

\* The second branch of a union, written as r.
write_branch(r) ==
  IF r.err # "" THEN Written(WriteError, << >>)
  ELSE Written("", << Branch("1") >> \o r.out)

write_data(defs, t, datum) ==
  IF t.k = "union"
    THEN IF datum = NoneV THEN Written("", << Branch("0") >>)
         ELSE write_branch(write_data(defs, t.of, datum))
  ELSE IF ~Known(defs, t)
    THEN Written(WriteError, << >>)
  ELSE IF Resolve(defs, t).k = "name"
    THEN IF datum.k = PrimKind(t.v)
           THEN Written("", IF t.v = "null" THEN << >> ELSE << datum >>)
           ELSE Written(WriteError, << >>)
  ELSE IF datum.k # "dict"
    THEN Written(WriteError, << >>)
  ELSE write_record(defs, Resolve(defs, t).fields, datum.f, 1)

\* schemaless_writer(out, schema, record)
schemaless_writer(schema, record) == write_data(RecordDefs(schema), schema, record)

\* Whether a value written as w can be read as r (both resolved, no unions).
Matches(w, r) ==
  IF w.k = "name" /\ r.k = "name"
    THEN w.v = r.v \/ (w.v = "int" /\ r.v \in {"long", "double"})
         \/ (w.v = "long" /\ r.v = "double")
    ELSE w.k = "record" /\ r.k = "record" /\ w.name = r.name

FieldIndex(fields, n) == CHOOSE j \in 1..Len(fields) : fields[j].name = n
HasField(fields, n) == \E j \in 1..Len(fields) : fields[j].name = n

RECURSIVE read_data(_, _, _, _, _)
RECURSIVE read_record(_, _, _, _, _, _, _)
RECURSIVE fill_defaults(_, _, _, _)

\* The reader's fields the writer did not write take the reader's default.
fill_defaults(wfields, rfields, fm, j) ==
  IF j > Len(rfields) THEN [err |-> "", fm |-> fm]
  ELSE IF HasField(wfields, rfields[j].name)
    THEN fill_defaults(wfields, rfields, fm, j + 1)
  ELSE IF rfields[j].default = NoDefault
    THEN [err |-> ResolutionError, fm |-> fm]
  ELSE fill_defaults(wfields, rfields,
                     DictSet(fm, rfields[j].name, DefaultValue(rfields[j])), j + 1)

\* The record read, once the reader's defaults d are filled in.
read_filled(d, tokens) == Decoded(d.err, Dict(d.fm), tokens)

\* The writer's field i was read as r: it is kept when the reader declares
\* it, and skipped when not.
read_next(wdefs, rdefs, wfields, rfields, i, fm, keep, r) ==
  IF r.err # "" THEN r
  ELSE read_record(wdefs, rdefs, wfields, rfields, r.rest, i + 1,
                   IF keep THEN DictSet(fm, wfields[i].name, r.val) ELSE fm)

read_record(wdefs, rdefs, wfields, rfields, tokens, i, fm) ==
  IF i > Len(wfields)
    THEN read_filled(fill_defaults(wfields, rfields, fm, 1), tokens)
  ELSE IF HasField(rfields, wfields[i].name)
    THEN read_next(wdefs, rdefs, wfields, rfields, i, fm, TRUE,
                   read_data(wdefs, rdefs, wfields[i].type,
                             rfields[FieldIndex(rfields, wfields[i].name)].type, tokens))
  ELSE read_next(wdefs, rdefs, wfields, rfields, i, fm, FALSE,
                 read_data(wdefs, wdefs, wfields[i].type, wfields[i].type, tokens))

read_data(wdefs, rdefs, wt, rt, tokens) ==
  IF wt.k = "union"
    THEN IF tokens = << >> \/ Head(tokens).k # "branch"
           THEN Decoded(ReadError, NoneV, tokens)
           ELSE read_data(wdefs, rdefs,
                          IF Head(tokens).v = "0" THEN Named("null") ELSE wt.of,
                          rt, Tail(tokens))
  ELSE IF ~Known(wdefs, wt) \/ ~(rt.k = "union" \/ Known(rdefs, rt))
    THEN Decoded(ResolutionError, NoneV, tokens)
  ELSE IF rt.k = "union"
    THEN IF wt = Named("null") THEN Decoded("", NoneV, tokens)
         ELSE IF Known(rdefs, rt.of) /\ Matches(Resolve(wdefs, wt), Resolve(rdefs, rt.of))
           THEN read_data(wdefs, rdefs, wt, rt.of, tokens)
         ELSE Decoded(ResolutionError, NoneV, tokens)
  ELSE IF ~Matches(Resolve(wdefs, wt), Resolve(rdefs, rt))
    THEN Decoded(ResolutionError, NoneV, tokens)
  ELSE IF Resolve(wdefs, wt).k = "record"
    THEN read_record(wdefs, rdefs, Resolve(wdefs, wt).fields, Resolve(rdefs, rt).fields,
                     tokens, 1, << >>)
  ELSE IF wt.v = "null"
    THEN Decoded("", NoneV, tokens)
  ELSE IF tokens = << >> \/ Head(tokens).k # PrimKind(wt.v)
    THEN Decoded(ReadError, NoneV, tokens)
  ELSE Decoded("", Head(tokens), Tail(tokens))

\* schemaless_reader(data, writer_schema, reader_schema)
schemaless_reader(data, writer_schema, reader_schema) ==
  read_data(RecordDefs(writer_schema), RecordDefs(reader_schema),
            writer_schema, reader_schema, data)

(***************************************************************************)
(* The instances and wire maps callers hand to a bridge.                   *)
(***************************************************************************)
RECURSIVE Instances(_, _)
RECURSIVE FieldMaps(_, _, _)

\* The values an attribute can hold: one value of its declared type, named
\* after the attribute, and, when it has a default, the default and None.
ValuesOf(attribute, depth) ==
  ( IF HasAttrs(attribute.type)
      THEN IF depth = 0 THEN {} ELSE Instances(attribute.type, depth - 1)
    ELSE IF attribute.type = "str" THEN {StrV(attribute.name)}
    ELSE IF attribute.type = "int" THEN {IntV("1")}
    ELSE IF attribute.type = "datetime" THEN {DatetimeV("t1")}
    ELSE IF attribute.type = "CourseKey" THEN {CourseKeyV("ck1")}
    ELSE IF attribute.type = "list" THEN {[k |-> "list", v |-> "l1"]}
    ELSE {[k |-> attribute.type, v |-> "x"]} )
  \cup (IF attribute.default # NOTHING THEN {attribute.default, NoneV} ELSE {})

FieldMaps(attrs, i, depth) ==
  IF i > Len(attrs) THEN { << >> }
  ELSE {DictSet(fm, attrs[i].name, val) :
          fm \in FieldMaps(attrs, i + 1, depth), val \in ValuesOf(attrs[i], depth)}

Instances(attrs_cls, depth) ==
  {Obj(attrs_cls, fm) : fm \in FieldMaps(AttrsClasses[attrs_cls].attrs, 1, depth)}

\* The keyword arguments of serialize_signal for a signal.
SignalKwargs(signal_cls) ==
  {Dict(fm) : fm \in FieldMaps(InitData(signal_cls), 1, MaxNest)}

\* A decoded map, as it is, with a key no class declares, without one of its
\* keys, or with None under one of its keys.
Variants(fm) ==
  {fm, DictSet(fm, "removed_key", StrV("removed_value"))}
  \cup {DictDel(fm, n) : n \in DOMAIN fm}
  \cup {DictSet(fm, n, NoneV) : n \in DOMAIN fm}

(***************************************************************************)
(* The state: the class attribute default_extensions, the bridges made so  *)
(* far, and the last call with its arguments and its outcome.              *)
(***************************************************************************)
VARIABLES default_extensions, bridges, last

vars == << default_extensions, bridges, last >>

\* The two bridges of a behaviour: the producer's and the consumer's of one
\* event, each built from its own version of the event's declaration.
BridgeIds == {"old_bridge", "new_bridge"}
NoWriter == "None"

NoBridge ==
  [state |-> "absent", mode |-> "", cls |-> "", given |-> NoExtensions,
   extensions |-> NoExtensions,
   config |-> default_config, schema_record_names |-> {}, schema_dict |-> NoSchema,
   err |-> "", trace |-> << >>]

\* What a call was given and what became of it: arg the argument, by the
\* bridge that wrote payload from src, writer the bridge whose schema_dict
\* was passed as writer_schema (or none), data the argument after the call.
Call(op, b, arg, by, src, writer, payload, r) ==
  [op |-> op, b |-> b, arg |-> arg, by |-> by, src |-> src, writer |-> writer,
   payload |-> payload, err |-> r.err, val |-> r.val, data |-> r.data, hit |-> r.hit]
Outcome(e, val, data, hit) == [err |-> e, val |-> val, data |-> data, hit |-> hit]

\* A variant of lines 58-61 that updates the class attribute itself
\* (self.extensions = self.default_extensions).
InitExtensionsShared(defaults, extensions) ==
  [own |-> [t \in (DOMAIN defaults) \cup (DOMAIN extensions) |->
              IF t \in DOMAIN extensions THEN extensions[t] ELSE defaults[t]],
   cls |-> [t \in (DOMAIN defaults) \cup (DOMAIN extensions) |->
              IF t \in DOMAIN extensions THEN extensions[t] ELSE defaults[t]]]

\* Lines 58-61: the bridge's own registry, and the class attribute after it.
InitExtensions(defaults, extensions) ==
  [own |-> [t \in (DOMAIN defaults) \cup (DOMAIN extensions) |->
              IF t \in DOMAIN extensions THEN extensions[t] ELSE defaults[t]],
   cls |-> defaults]

\* Lines 73 and 82: schema_record_names as a construction starts.
InitialRecordNames(others) == {}

\* The arguments the constructor is called with.
RootConfigs ==
  ({"attrs"} \X {"TestData", "TestDataAdded", "TestDataRemoved", "Node", "Ping", "Collide",
                  "Deep"}
             \X {NoExtensions})
  \cup ({"attrs"} \X {"CourseEnrollmentData", "WithList"}
                  \X {NoExtensions, [SubTestData |-> SubTestDataExtension, list |-> ListExtension]})
  \cup ({"attrs"} \X {"CourseData"}
                  \X {NoExtensions, [CourseKey |-> CourseKeyAvroAttrsBridgeExtension]})
  \cup ({"signal"} \X {"SIG_TEST", "SIG_ADDED", "SIG_REMOVED", "SIG_BAD"} \X {NoExtensions})
  \cup ({"signal"} \X {"SIG_SIMPLE", "SIG_WHEN"}
                   \X {NoExtensions, [datetime |-> EpochExtension, int |-> IntTextExtension]})

\* The name an event's declaration goes by: the root class's __name__, or
\* the keys of the signal.
EventName(mode, cls) ==
  IF mode = "attrs" THEN << AttrsClasses[cls].name >>
  ELSE [i \in 1..Len(Signals[cls]) |-> Signals[cls][i].name]

Init ==
  /\ default_extensions = DefaultExtensions
  /\ bridges = [b \in BridgeIds |-> NoBridge]
  /\ last = Call("", NoWriter, NoneV, NoWriter, NoneV, NoWriter, << >>,
                 Outcome("", NoneV, NoneV, FALSE))

\* Lines 68-85: the bridge after the derivation d, which fastavro then parses.
Constructed(mode, cls, given, extensions, d, perr) ==
  [state |-> IF perr = "" THEN "ready" ELSE "failed",
   mode |-> mode, cls |-> cls, given |-> given, extensions |-> extensions,
   config |-> default_config, schema_record_names |-> d.names,
   schema_dict |-> IF d.err = "" THEN d.schema ELSE NoSchema,
   err |-> perr, trace |-> d.trace]

ParseError(d) == IF d.err # "" THEN d.err ELSE parse_schema(d.schema)

Build(b, mode, cls, given, e, d) ==
  /\ default_extensions' = e.cls
  /\ bridges' = [bridges EXCEPT ![b] = Constructed(mode, cls, given, e.own, d,
                                                    ParseError(d))]
  /\ last' = Call("init", b, NoneV, NoWriter, NoneV, NoWriter, << >>,
                  Outcome(ParseError(d), NoneV, NoneV, FALSE))

Derive(mode, cls, extensions, names) ==
  IF mode = "attrs"
    THEN attrs_to_avro_schema(extensions, names, cls)
    ELSE signal_to_avro_schema(extensions, names, cls)

\* AvroAttrsBridge(attrs_cls=cls, extensions=extensions) or
\* AvroAttrsBridge(signal_cls=cls, extensions=extensions).  The second bridge
\* of a behaviour is made for a version of the event the first was made for.
New(b, mode, cls, extensions) ==
  /\ bridges[b].state = "absent"
  /\ \A o \in BridgeIds :
       bridges[o].state # "absent" =>
         bridges[o].mode = mode /\ EventName(mode, bridges[o].cls) = EventName(mode, cls)
  /\ Build(b, mode, cls, extensions, InitExtensions(default_extensions, extensions),
           Derive(mode, cls, InitExtensions(default_extensions, extensions).own,
                  InitialRecordNames(
                    UNION {bridges[o].schema_record_names : o \in BridgeIds})))

Ready(b) == bridges[b].state = "ready"

\* A variant of the methods of lines 218-370 in which a call empties the
\* bridge's schema_record_names.
NamesCleared ==
  bridges' = [b \in BridgeIds |-> [bridges[b] EXCEPT !.schema_record_names = {}]]

\* Lines 218-370: no method called on a constructed bridge assigns an
\* attribute of self, or changes one in place.
SelfUnchanged == bridges' = bridges

\* The outcome of a call that returned or raised r.
Returned(r) == Outcome(r.err, r.val, NoneV, FALSE)

\* bridge.to_dict(obj, {"id": ..., "time": ...})
ToDict(b, obj) ==
  /\ Ready(b)
  /\ last' = Call("to_dict", b, obj, NoWriter, NoneV, NoWriter, << >>,
                  Returned(to_dict(bridges[b].extensions, bridges[b].config, obj,
                                   "id-1", "now")))
  /\ SelfUnchanged /\ UNCHANGED default_extensions

\* fastavro.schemaless_writer(out, self.schema_dict, record), where record is
\* what the marshalling returned or raised.
WritePayload(schema_dict, record) ==
  IF record.err # "" THEN Written(record.err, << >>)
  ELSE schemaless_writer(schema_dict, record.val)

\* The call op of bridge b wrote w from arg.
Wrote(op, b, arg, w) ==
  Call(op, b, arg, b, arg, NoWriter, w.out, Outcome(w.err, NoneV, NoneV, FALSE))

\* bridge.serialize(obj)
Serialize(b, obj) ==
  /\ Ready(b)
  /\ last' = Wrote("serialize", b, obj,
                   WritePayload(bridges[b].schema_dict,
                                to_dict(bridges[b].extensions, bridges[b].config, obj,
                                        "id-1", "now")))
  /\ SelfUnchanged /\ UNCHANGED default_extensions

\* Line 269: data_dict around the json round trip j of kwargs.
DataDict(j) == IF j.err # "" THEN j ELSE Ok(Dict([data |-> j.val]))

\* bridge.serialize_signal(**kwargs)
SerializeSignal(b, kwargs) ==
  /\ Ready(b)
  /\ last' = Wrote("serialize_signal", b, kwargs,
                   WritePayload(bridges[b].schema_dict,
                                DataDict(json_roundtrip(bridges[b].extensions, kwargs))))
  /\ SelfUnchanged /\ UNCHANGED default_extensions

\* A payload is at hand when the last call wrote one.
HasPayload == last.op \in {"serialize", "serialize_signal"} /\ last.err = ""

\* A variant of lines 300-303 that reads by the writer's schema alone.
ReadPayloadAsWritten(b, writer) ==
  IF writer = NoWriter
    THEN schemaless_reader(last.payload, bridges[b].schema_dict, bridges[b].schema_dict)
    ELSE schemaless_reader(last.payload, bridges[writer].schema_dict,
                           bridges[writer].schema_dict)

\* Lines 299-305: the record schemaless_reader returns for the payload at hand.
ReadPayload(b, writer) ==
  IF writer = NoWriter
    THEN schemaless_reader(last.payload, bridges[b].schema_dict, bridges[b].schema_dict)
    ELSE schemaless_reader(last.payload, bridges[writer].schema_dict, bridges[b].schema_dict)

AttrsOutcome(o) == Outcome(o.err, o.val, o.data, FALSE)
SignalOutcome(o) == Outcome(o.err, o.val, o.val, o.hit)

\* Line 306: self.dict_to_attrs(record["data"], self._attrs_cls)
DeserializeRecord(bridge, record) ==
  IF record.err # "" THEN Outcome(record.err, NoneV, NoneV, FALSE)
  ELSE IF bridge.mode # "attrs"
    THEN Outcome("AttributeError", NoneV, record.val.f["data"], FALSE)
  ELSE AttrsOutcome(dict_to_attrs(bridge.extensions, record.val.f["data"], bridge.cls))

\* Line 323: self.dict_to_signal(record["data"])
DeserializeSignalRecord(bridge, record) ==
  IF record.err # "" THEN Outcome(record.err, NoneV, NoneV, FALSE)
  ELSE IF bridge.mode # "signal"
    THEN Outcome("AttributeError", NoneV, record.val.f["data"], FALSE)
  ELSE SignalOutcome(dict_to_signal(bridge.extensions, record.val.f["data"], bridge.cls))

\* bridge.deserialize(data, writer_schema)
Deserialize(b, writer) ==
  /\ Ready(b) /\ HasPayload
  /\ IF writer = NoWriter THEN TRUE ELSE Ready(writer)
  /\ last' = Call("deserialize", b, NoneV, last.by, last.src, writer, last.payload,
                  DeserializeRecord(bridges[b], ReadPayload(b, writer)))
  /\ SelfUnchanged /\ UNCHANGED default_extensions

\* bridge.deserialize_signal(data, writer_schema)
DeserializeSignal(b, writer) ==
  /\ Ready(b) /\ HasPayload
  /\ IF writer = NoWriter THEN TRUE ELSE Ready(writer)
  /\ last' = Call("deserialize_signal", b, NoneV, last.by, last.src, writer, last.payload,
                  DeserializeSignalRecord(bridges[b], ReadPayload(b, writer)))
  /\ SelfUnchanged /\ UNCHANGED default_extensions

\* AvroAttrsBridgeKafkaWrapper.from_dict(data, ctx) with data["data"] = Dict(fm)
FromDict(b, fm) ==
  /\ Ready(b) /\ bridges[b].mode = "attrs"
  /\ last' = Call("from_dict", b, Dict(fm), NoWriter, NoneV, NoWriter, << >>,
                  AttrsOutcome(dict_to_attrs(bridges[b].extensions, Dict(fm),
                                             bridges[b].cls)))
  /\ SelfUnchanged /\ UNCHANGED default_extensions

\* bridge.dict_to_signal(data)
DictToSignal(b, fm) ==
  /\ Ready(b) /\ bridges[b].mode = "signal"
  /\ last' = Call("dict_to_signal", b, Dict(fm), NoWriter, NoneV, NoWriter, << >>,
                  SignalOutcome(dict_to_signal(bridges[b].extensions, Dict(fm),
                                               bridges[b].cls)))
  /\ SelfUnchanged /\ UNCHANGED default_extensions

\* The maps a caller passes to from_dict and dict_to_signal: what the
\* bridge's own marshalling makes of an instance, and its variants.
AttrsMaps(b) ==
  UNION {Variants(asdict(bridges[b].extensions, obj).val.f) :
           obj \in {o \in Instances(bridges[b].cls, MaxNest) :
                      asdict(bridges[b].extensions, o).err = ""}}
SignalMaps(b) ==
  UNION {Variants(json_roundtrip(bridges[b].extensions, kw).val.f) :
           kw \in {o \in SignalKwargs(bridges[b].cls) :
                     json_roundtrip(bridges[b].extensions, o).err = ""}}

Next ==
  \/ \E b \in BridgeIds, c \in RootConfigs : New(b, c[1], c[2], c[3])
  \/ \E b \in BridgeIds :
       /\ Ready(b) /\ bridges[b].mode = "attrs"
       /\ \E obj \in Instances(bridges[b].cls, MaxNest) : ToDict(b, obj)
  \/ \E b \in BridgeIds :
       /\ Ready(b) /\ bridges[b].mode = "attrs"
       /\ \E obj \in Instances(bridges[b].cls, MaxNest) : Serialize(b, obj)
  \/ \E b \in BridgeIds :
       /\ Ready(b) /\ bridges[b].mode = "signal"
       /\ \E kw \in SignalKwargs(bridges[b].cls) : SerializeSignal(b, kw)
  \/ \E b \in BridgeIds, w \in {NoWriter} \cup BridgeIds : Deserialize(b, w)
  \/ \E b \in BridgeIds, w \in {NoWriter} \cup BridgeIds : DeserializeSignal(b, w)
  \/ \E b \in BridgeIds :
       /\ Ready(b) /\ bridges[b].mode = "attrs"
       /\ \E fm \in AttrsMaps(b) : FromDict(b, fm)
  \/ \E b \in BridgeIds :
       /\ Ready(b) /\ bridges[b].mode = "signal"
       /\ \E fm \in SignalMaps(b) : DictToSignal(b, fm)

Spec == Init /\ [][Next]_vars

(***************************************************************************)
(* Properties.  They are stated over the bridges made so far, the visits   *)
(* their derivations recorded, and the last call.                          *)
(***************************************************************************)
\* The bridges whose constructor has been called.
Built == {b \in BridgeIds : bridges[b].state # "absent"}

\* The declarations of a class, as a set.
AttrSet(attrs_cls) ==
  {AttrsClasses[attrs_cls].attrs[i] : i \in 1..Len(AttrsClasses[attrs_cls].attrs)}

\* The declared types the catalog maps to a container kind.
ContainerTypes == {"list", "dict"}

\* The visits of the derivation of bridge b.
Visits(b) == {bridges[b].trace[i] : i \in 1..Len(bridges[b].trace)}

\* The last call read, with bridge b, a payload that b itself wrote, and no
\* writer schema was passed.
OwnRoundTrip ==
  /\ last.op = "deserialize"
  /\ last.writer = NoWriter
  /\ last.by = last.b
  /\ bridges[last.b].mode = "attrs"
  /\ \A v \in Visits(last.b) : v.type \notin ContainerTypes

\* C1: for a record type built from primitives, extension types and nested
\* record types, without containers, marshal -> encode -> decode ->
\* reconcile by one bridge returns an instance equal to the original, also
\* when a defaulted field of the original holds None.
C1_RoundTrip == OwnRoundTrip => (last.err = "" /\ last.val = last.src)

\* Class Q declares all that class P declares, and more, each addition with
\* a default.
Extends(P, Q) ==
  /\ AttrSet(P) \subseteq AttrSet(Q)
  /\ AttrSet(P) # AttrSet(Q)
  /\ \A a \in AttrSet(Q) \ AttrSet(P) : a.default # NOTHING

\* The instance of Q that holds the values src has for the attributes of P,
\* and Q's declared default for the others.
Evolved(P, Q, src) ==
  Obj(Q, [n \in AttrNames(Q) |->
            IF n \in AttrNames(P) THEN src.f[n] ELSE AttrNamed(Q, n).default])

\* The last call read, with the writer's schema passed, a payload that the
\* other bridge wrote.
ReadOthers(op, mode) ==
  /\ last.op = op
  /\ last.writer # NoWriter
  /\ last.writer = last.by
  /\ last.by # last.b
  /\ bridges[last.b].mode = mode

\* Every key of signal T is declared by signal S too, and Related holds of
\* the record types the two declare for it.
SignalsRelated(S, T, Related(_, _)) ==
  /\ Len(Signals[S]) = Len(Signals[T])
  /\ \A i \in 1..Len(Signals[S]) :
       /\ Signals[S][i].name = Signals[T][i].name
       /\ HasAttrs(Signals[S][i].type) /\ HasAttrs(Signals[T][i].type)
       /\ Related(Signals[S][i].type, Signals[T][i].type)

\* The mapping a consumer of signal T gets of the keyword arguments src of
\* signal S.
SignalEvolved(S, T, src) ==
  Dict([n \in {Signals[T][i].name : i \in 1..Len(Signals[T])} |->
          LET i == CHOOSE j \in 1..Len(Signals[T]) : Signals[T][j].name = n
          IN Evolved(Signals[S][i].type, Signals[T][i].type, src.f[n])])

\* C2: backward compatibility.  When the consumer's type declares a field
\* with a default that the producer's type lacks, decoding the producer's
\* payload with the writer's schema and reconciling it against the
\* consumer's type returns an instance whose shared fields hold the
\* producer's values and whose added field holds the declared default.
C2_BackwardCompatible ==
  /\ ( ReadOthers("deserialize", "attrs")
       /\ Extends(bridges[last.by].cls, bridges[last.b].cls) )
     => /\ last.err = ""
        /\ last.val = Evolved(bridges[last.by].cls, bridges[last.b].cls, last.src)
  /\ ( ReadOthers("deserialize_signal", "signal")
       /\ SignalsRelated(bridges[last.by].cls, bridges[last.b].cls, Extends) )
     => /\ last.err = ""
        /\ last.val = SignalEvolved(bridges[last.by].cls, bridges[last.b].cls, last.src)

\* A consumer of TestDataAdded has read what a producer of TestData wrote,
\* and added_key holds "default_value".
C2_Witness ==
  /\ ReadOthers("deserialize", "attrs")
  /\ bridges[last.by].cls = "TestData"
  /\ bridges[last.b].cls = "TestDataAdded"
  /\ last.err = ""
  /\ last.val.f["added_key"] = StrV("default_value")
  /\ last.val.f["sub_name"] = last.src.f["sub_name"]

\* Class P declares all that class Q declares, and more.
Narrows(P, Q) == AttrSet(Q) \subseteq AttrSet(P) /\ AttrSet(Q) # AttrSet(P)

\* C3: forward compatibility.  When the producer's type has a field that the
\* consumer's type does not declare, decoding the producer's payload with
\* the writer's schema and reconciling it against the consumer's type
\* returns, without an error, the instance of the consumer's type that holds
\* the producer's values of the fields the consumer declares.
C3_ForwardCompatible ==
  /\ ( ReadOthers("deserialize", "attrs")
       /\ Narrows(bridges[last.by].cls, bridges[last.b].cls) )
     => /\ last.err = ""
        /\ last.val = Evolved(bridges[last.b].cls, bridges[last.b].cls, last.src)
  /\ ( ReadOthers("deserialize_signal", "signal")
       /\ SignalsRelated(bridges[last.by].cls, bridges[last.b].cls, Narrows) )
     => /\ last.err = ""
        /\ ~last.hit
        /\ last.val = SignalEvolved(bridges[last.b].cls, bridges[last.b].cls, last.src)

\* A consumer of the signal of TestData has read what a producer of the
\* signal of TestDataRemoved wrote: removed_key is not in what it got.
C3_Witness ==
  /\ ReadOthers("deserialize_signal", "signal")
  /\ bridges[last.by].cls = "SIG_REMOVED"
  /\ bridges[last.b].cls = "SIG_TEST"
  /\ "removed_key" \in DOMAIN last.src.f["test_data"].f
  /\ last.err = ""
  /\ last.val.f["test_data"] = Obj("TestData", [sub_name |-> StrV("sub_name"),
                                                course_id |-> StrV("course_id")])

\* The keys of the map given to the last call that the bridge's class does
\* not declare.
Undeclared == (DOMAIN last.arg.f) \ AttrNames(bridges[last.b].cls)

\* The outcome of reconciling data without the keys in extra.
Without(extensions, data, extra, attrs_cls) ==
  dict_to_attrs(extensions, Dict([n \in (DOMAIN data.f) \ extra |-> data.f[n]]), attrs_cls)

SameInstance(r) == r.err = "" => (last.err = "" /\ last.val = r.val)

\* C4: from_dict, and dict_to_attrs which it calls, overlook a key of the map
\* that the class does not declare: the call returns what it returns for the
\* map without that key.
C4_ExtraKeysIgnored ==
  (last.op = "from_dict" /\ Undeclared # {})
    => SameInstance(Without(bridges[last.b].extensions, last.arg, Undeclared,
                            bridges[last.b].cls))

\* Bridge b has no way to describe type t: no extension, no catalog entry,
\* no attrs declarations.
Unsupported(b, t) ==
  /\ t \notin DOMAIN bridges[b].extensions
  /\ t \notin DOMAIN PYTHON_TYPE_TO_AVRO_MAPPING
  /\ ~HasAttrs(t)

\* The derivation stopped at visit i: what the trace holds after it is the
\* enclosing records, each failing with the same error.
StoppedAt(trace, i) ==
  \A j \in i..Len(trace) :
    /\ trace[j].err = trace[i].err
    /\ j > i => (trace[j].out = "definition" /\ trace[j].level < trace[j - 1].level)

\* The construction of bridge b failed with error e and left no schema.
Rejected(b, e) ==
  /\ bridges[b].state = "failed"
  /\ bridges[b].err = e
  /\ bridges[b].schema_dict = NoSchema

ValueType(field) == IF field.type.k = "union" THEN field.type.of ELSE field.type

\* C6: a field whose declared type the catalog maps to a container kind
\* makes the derivation fail with the exception of line 162 when the bridge
\* has no extension for that type, and is described by the extension's
\* fragment when it has one.
C6_Containers ==
  \A b \in Built :
    \A i \in 1..Len(bridges[b].trace) :
      bridges[b].trace[i].type \in ContainerTypes
        => IF bridges[b].trace[i].type \in DOMAIN bridges[b].extensions
             THEN /\ bridges[b].trace[i].err = ""
                  /\ bridges[b].trace[i].out = "extension"
                  /\ ValueType(bridges[b].trace[i].field)
                       = Named(bridges[b].extensions[bridges[b].trace[i].type].fragment)
             ELSE /\ bridges[b].trace[i].err = ContainerError
                  /\ ContainerError \notin TypeErrors
                  /\ StoppedAt(bridges[b].trace, i)
                  /\ Rejected(b, ContainerError)

\* Of two bridges for WithList, the one without an extension for list was
\* rejected, and the one with it described items by the fragment.
C6_Witness ==
  \E b1 \in Built, b2 \in Built :
    /\ Rejected(b1, ContainerError)
    /\ "list" \notin DOMAIN bridges[b1].extensions
    /\ \E v \in Visits(b2) :
         v.type = "list" /\ v.err = "" /\ v.field.type = Named(ListExtension.fragment)

\* The record types the derivation of bridge b came to as attrs classes.
RecordTypes(b) == {v.type : v \in {w \in Visits(b) : w.out \in {"definition", "reference"}}}

\* C7: within one derivation every record name is defined at most once and
\* every reference follows the definition of its name; a nested record type
\* is defined where it first occurs and referred to by name where it occurs
\* again; the set of seen names is empty when a construction starts.
C7_NameDedup ==
  \A b \in Built :
    bridges[b].schema_dict # NoSchema
      => /\ WellFormedEvents(SchemaEvents(bridges[b].schema_dict))
         /\ \A t \in RecordTypes(b) :
              Cardinality({i \in 1..Len(bridges[b].trace) :
                             /\ bridges[b].trace[i].type = t
                             /\ bridges[b].trace[i].out = "definition"}) = 1
         /\ \A v \in Visits(b) :
              v.seen \subseteq {AttrsClasses[t].name : t \in RecordTypes(b)}

\* The declaration of the field a visit described carries a default: the
\* field is an attribute of an attrs class, declared with one.  The keys of a
\* signal, which are the fields of the outermost record of a signal's
\* schema, are declared with a type alone.
DeclaresDefault(mode, v) ==
  /\ ~(mode = "signal" /\ v.level = 1)
  /\ v.default # NOTHING
  /\ \E c \in DOMAIN AttrsClasses :
       \E a \in AttrSet(c) : a.name = v.name /\ a.type = v.type /\ a.default = v.default

\* C8: a field is described as the union of null and its type, with the
\* default null, exactly when its declaration carries a default, whatever
\* the default is; a field without a default is described by its bare type.
\* This is so whether the type is a primitive, an extension's fragment, a
\* record definition or a reference to one.
C8_NullableIffDefault ==
  \A b \in Built :
    \A v \in Visits(b) :
      v.err = ""
        => IF DeclaresDefault(bridges[b].mode, v)
             THEN /\ v.field.type.k = "union"
                  /\ v.field.type.of.k \in {"name", "record"}
                  /\ v.field.default = "null"
             ELSE /\ v.field.type.k \in {"name", "record"}
                  /\ v.field.default = NoDefault

\* A bridge for CourseEnrollmentData: created_by, declared with the default
\* None, is the union of null and a reference; user, mode and creation_date,
\* declared without a default, are a bare record, primitive and fragment.
C8_Witness ==
  \E b \in Built :
    /\ Ready(b)
    /\ bridges[b].cls = "CourseEnrollmentData"
    /\ \E v \in Visits(b) :
         v.name = "created_by" /\ v.out = "reference"
         /\ v.field = Field("created_by", Union(Named("SubTestData")), "null")
    /\ \E v \in Visits(b) : v.name = "user" /\ v.out = "definition" /\ v.field.type.k = "record"
    /\ \E v \in Visits(b) : v.name = "mode" /\ v.field = Field("mode", Named("string"), NoDefault)
    /\ \E v \in Visits(b) : v.name = "creation_date" /\ v.out = "extension"
                            /\ v.field.default = NoDefault

\* The attributes of the bridge's class that the map given to the last call
\* has no key for.
Absent == AttrNames(bridges[last.b].cls) \ (DOMAIN last.arg.f)

\* from_dict was called with a map that lacks a declared key and has no
\* undeclared one, and the loop of lines 343-368 came to its end.
AbsentCase ==
  /\ last.op = "from_dict"
  /\ Absent # {}
  /\ Undeclared = {}
  /\ reconcile_loop(bridges[last.b].extensions, last.arg.f,
                    AttrsClasses[bridges[last.b].cls].attrs, 1).err = ""

\* C9: a declared field that the wire map has no key for is left absent.
\* When it has a default, the instance holds the declared default; when it
\* has none, the call fails for the missing argument and returns nothing.
C9_AbsentFields ==
  AbsentCase
    => /\ \A n \in Absent : n \notin DOMAIN last.data.f
       /\ IF \E n \in Absent : AttrNamed(bridges[last.b].cls, n).default = NOTHING
            THEN /\ last.err = MissingArgumentError
                 /\ last.val = NoneV
            ELSE /\ last.err = ""
                 /\ \A n \in Absent :
                      last.val.f[n] = AttrNamed(bridges[last.b].cls, n).default
                 /\ \A n \in AttrNames(bridges[last.b].cls) \ Absent :
                      n \in DOMAIN last.data.f /\ last.val.f[n] = last.data.f[n]

\* from_dict for TestDataAdded got a map without added_key and returned an
\* instance that holds "default_value".
C9_Witness ==
  /\ AbsentCase
  /\ bridges[last.b].cls = "TestDataAdded"
  /\ Absent = {"added_key"}
  /\ last.err = ""
  /\ last.val.f["added_key"] = StrV("default_value")

\* C10: the registry of a bridge is the built-in defaults overlaid by the
\* extensions the caller passed: the caller's entry stands for its type, the
\* built-in entries stand for the other types, a field is described by an
\* extension only when the registry has an entry for exactly its type, and
\* no construction changes the built-in defaults.
C10_Registry ==
  /\ default_extensions = DefaultExtensions
  /\ \A b \in Built :
       /\ DOMAIN bridges[b].extensions
            = (DOMAIN DefaultExtensions) \cup (DOMAIN bridges[b].given)
       /\ \A t \in DOMAIN bridges[b].given :
            bridges[b].extensions[t] = bridges[b].given[t]
       /\ \A t \in (DOMAIN DefaultExtensions) \ (DOMAIN bridges[b].given) :
            bridges[b].extensions[t] = DefaultExtensions[t]
       /\ \A v \in Visits(b) :
            (v.out = "extension") <=> (v.type \in DOMAIN bridges[b].extensions)
       /\ \A v \in Visits(b) :
            v.out = "extension"
              => ValueType(v.field) = Named(bridges[b].extensions[v.type].fragment)

\* A bridge was made with an extension of its own for datetime, and the
\* bridge made after it, without extensions, has the built-in one.
C10_Witness ==
  \E b1 \in Built, b2 \in Built :
    /\ "datetime" \in DOMAIN bridges[b1].given
    /\ bridges[b1].extensions["datetime"] = EpochExtension
    /\ last.op = "init" /\ last.b = b2 /\ b2 # b1
    /\ bridges[b2].given = NoExtensions
    /\ bridges[b2].extensions["datetime"] = DatetimeAvroAttrsBridgeExtension
    /\ \E v \in Visits(b2) : v.type = "datetime" /\ v.field.type = Named("string")

\* The kinds of the scalars a wire value is made of.
WireScalars == JsonNative \cup {"bytes"}

RECURSIVE IsWireValue(_)

\* A value is a wire value: a wire scalar, or a map of wire values.
IsWireValue(value) ==
  IF value.k = "dict"
    THEN \A n \in DOMAIN value.f : IsWireValue(value.f[n])
    ELSE value.k \in WireScalars

\* What a marshalling returned, when it returned, is a wire value.
Marshalled(r) == r.err = "" => IsWireValue(r.val)

\* C11: what to_dict returns for a record instance, and what serialize_signal
\* makes of its keyword arguments before it writes them, holds only wire
\* scalars and maps of them: no value of a type with an extension, no attrs
\* instance and no other object is left in it at any depth.
C11_WireValuesOnly ==
  /\ last.op = "to_dict" => Marshalled(last)
  /\ last.op = "serialize_signal"
       => Marshalled(json_roundtrip(bridges[last.b].extensions, last.arg))

\* Key i of the signal's init_data is present in the mapping fm with a value
\* that is not of the declared type, the declared type is not an attrs class
\* and has no extension, and the loop of dict_to_signal gets as far as key i.
Unconvertible(extensions, fm, items, i) ==
  /\ items[i].name \in DOMAIN fm
  /\ ~HasAttrs(items[i].type)
  /\ TypeOf(fm[items[i].name]) # items[i].type
  /\ ExtensionsGet(extensions, items[i].type) = << >>
  /\ signal_loop(extensions, fm, SubSeq(items, 1, i - 1), 1).err = ""

\* The last call was dict_to_signal on a mapping with an unconvertible value.
UnconvertibleCase ==
  /\ last.op = "dict_to_signal"
  /\ last.arg.k = "dict"
  /\ \E i \in DOMAIN Signals[bridges[last.b].cls] :
       Unconvertible(bridges[last.b].extensions, last.arg.f,
                     Signals[bridges[last.b].cls], i)

\* C12: when dict_to_signal meets a present value whose declared type is not
\* an attrs class, whose own type is not the declared type and whose declared
\* type has no extension, the call raises the unsupported-type error: it does
\* not stop at breakpoint() and it does not return the mapping.
C12_UnconvertibleRaises ==
  UnconvertibleCase => (last.err = UnsupportedTypeError /\ ~last.hit)

\* The branch of _get_object_fields that the order extension, catalog, attrs
\* class gives to type t in bridge b.
Precedence(b, t) ==
  IF t \in DOMAIN bridges[b].extensions THEN {"extension"}
  ELSE IF t \in DOMAIN PYTHON_TYPE_TO_AVRO_MAPPING THEN {"primitive", "container"}
  ELSE IF HasAttrs(t) THEN {"reference", "definition"}
  ELSE {"unsupported"}

\* C13: the derivation looks a field's type up in the extensions first, then
\* in the catalog, then among the attrs classes.  A type with an extension is
\* described by the extension's fragment even when the catalog has it or it
\* is an attrs class, and a type of the catalog is described by its catalog
\* kind whatever else it is.
C13_Precedence ==
  \A b \in Built :
    \A v \in Visits(b) :
      /\ v.out \in Precedence(b, v.type)
      /\ v.out = "extension"
           => ValueType(v.field) = Named(bridges[b].extensions[v.type].fragment)
      /\ v.out = "primitive"
           => ValueType(v.field) = Named(PYTHON_TYPE_TO_AVRO_MAPPING[v.type])

\* A bridge came to a field whose type has an extension and is also a type
\* of the catalog or an attrs class, and described it by the fragment.
C13_Witness ==
  \E b \in Built :
    \E v \in Visits(b) :
      /\ v.type \in DOMAIN bridges[b].extensions
      /\ (v.type \in DOMAIN PYTHON_TYPE_TO_AVRO_MAPPING \/ HasAttrs(v.type))
      /\ ValueType(v.field) = Named(bridges[b].extensions[v.type].fragment)

\* The declared attributes of the last call's class whose keys hold None in
\* the mapping the call was given.
Nulls ==
  {i \in DOMAIN AttrsClasses[bridges[last.b].cls].attrs :
     /\ AttrsClasses[bridges[last.b].cls].attrs[i].name \in DOMAIN last.arg.f
     /\ last.arg.f[AttrsClasses[bridges[last.b].cls].attrs[i].name] = NoneV}

\* The loop of dict_to_attrs, run on the last call's mapping over its first
\* n attributes only.
LoopUpTo(n) ==
  reconcile_loop(bridges[last.b].extensions, last.arg.f,
                 SubSeq(AttrsClasses[bridges[last.b].cls].attrs, 1, n), 1)

\* The loop of the last call came to attribute i.
CameTo(i) == LoopUpTo(i - 1).err = ""

\* What the call did with the null of attribute: the step raised nothing;
\* with a default the key is gone and the instance, when one is made, holds
\* the declared default; without one the key still holds None, and so does
\* the instance.
NullHandled(attribute, step) ==
  /\ step.err = ""
  /\ IF attribute.default # NOTHING
       THEN /\ attribute.name \notin DOMAIN step.fm
            /\ attribute.name \notin DOMAIN last.data.f
            /\ last.err = "" => last.val.f[attribute.name] = attribute.default
       ELSE /\ attribute.name \in DOMAIN step.fm
            /\ step.fm[attribute.name] = NoneV
            /\ last.data.f[attribute.name] = NoneV
            /\ last.err = "" => last.val.f[attribute.name] = NoneV

\* C14: a key that is present and holds None is deleted when the attribute
\* has a default, so that the instance holds the declared default, and is
\* handed to the constructor as None when it has none.  Neither an
\* extension's deserialize nor a nested dict_to_attrs is called on the None:
\* the step raises nothing and leaves no converted value.
C14_PresentNull ==
  last.op = "from_dict"
    => \A i \in Nulls :
         CameTo(i) => NullHandled(AttrsClasses[bridges[last.b].cls].attrs[i], LoopUpTo(i))

\* from_dict made an instance from a mapping in which a key of a type with
\* an extension or of an attrs class held None.
C14_Witness ==
  /\ last.op = "from_dict"
  /\ last.err = ""
  /\ \E i \in Nulls :
       \/ HasAttrs(AttrsClasses[bridges[last.b].cls].attrs[i].type)
       \/ AttrsClasses[bridges[last.b].cls].attrs[i].type
            \in DOMAIN bridges[last.b].extensions

\* The calls that unmarshal: they read a payload or reconcile a mapping.
ReconcileOps == {"deserialize", "deserialize_signal", "from_dict", "dict_to_signal"}

Definitions(trace) == {i \in DOMAIN trace : trace[i].out = "definition"}

\* Visit j of the trace is a visit of a field, at any depth, of the record
\* that visit i defines: it returned before i did, at a deeper level, with
\* nothing of i's level or above in between.
Within(trace, j, i) ==
  /\ j < i
  /\ \A k \in j..(i - 1) : trace[k].level > trace[i].level

\* The largest number of fields of a class or of a signal.
MaxFields ==
  CHOOSE n \in 1..8 :
    /\ \A c \in DOMAIN AttrsClasses : Len(AttrsClasses[c].attrs) <= n
    /\ \A g \in DOMAIN Signals : Len(Signals[g]) <= n
    /\ \/ \E c \in DOMAIN AttrsClasses : Len(AttrsClasses[c].attrs) = n
       \/ \E g \in DOMAIN Signals : Len(Signals[g]) = n

\* The derivation with this trace expanded each record name at most once
\* below the root, a seen name never, and put a name among the seen ones
\* before it came to the record's fields; so it made no more visits than
\* the root and the names it defined have fields.
Expansions(trace) ==
  /\ \A i \in DOMAIN trace :
       trace[i].out \in {"reference", "definition"}
         => /\ trace[i].out = "reference"
                 <=> AttrsClasses[trace[i].type].name \in trace[i].seen
            /\ \A j \in DOMAIN trace :
                 (trace[i].out = "definition" /\ Within(trace, j, i))
                   => AttrsClasses[trace[i].type].name \in trace[j].seen
  /\ \A i \in Definitions(trace), j \in Definitions(trace) :
       AttrsClasses[trace[i].type].name = AttrsClasses[trace[j].type].name => i = j
  /\ Len(trace) <= (1 + Cardinality(Definitions(trace))) * MaxFields

\* C16: the derivation ends for every class and signal, the class that
\* refers to itself and the two that refer to each other included: a nested
\* record's name is put in schema_record_names before its fields are
\* visited, a name that is there is emitted as a bare reference, and so each
\* name is expanded at most once below the root.
C16_Terminates ==
  \A b \in Built : Expansions(bridges[b].trace)

\* The derivation for Ping, whose field is a Pong whose field is a Ping,
\* ended: it defined Pong and Ping once each and then came to Pong again.
C16_Witness ==
  \E b \in Built :
    /\ bridges[b].cls = "Ping"
    /\ \E i \in Definitions(bridges[b].trace), j \in Definitions(bridges[b].trace) :
         /\ bridges[b].trace[i].type = "Ping"
         /\ bridges[b].trace[j].type = "Pong"
    /\ \E v \in Visits(b) : v.type = "Pong" /\ v.out = "reference"

\* The loop's step for attribute did what the extension's deserialize d does
\* with the value: it raised what d raises, or stored what d returns.
ByExtension(attribute, step, d) ==
  /\ step.err = d.err
  /\ d.err = "" => step.fm[attribute.name] = d.val

\* The three components' handling of field i of bridge b's class, a field
\* whose declared type has the extension ext: the derivation describes it by
\* the fragment, to_dict stores what the extension's serialize returns, and
\* from_dict hands a value that is not None to the extension's deserialize.
SameHandling(b, i, attribute, ext) ==
  /\ \A v \in Visits(b) :
       (v.level = 1 /\ v.name = attribute.name)
         => v.out = "extension" /\ ValueType(v.field) = Named(ext.fragment)
  /\ (last.op = "to_dict" /\ last.err = "")
       => last.val.f["data"].f[attribute.name]
            = ExtensionSerialize(ext, last.arg.f[attribute.name]).val
  /\ (/\ last.op = "from_dict"
      /\ attribute.name \in DOMAIN last.arg.f
      /\ last.arg.f[attribute.name] # NoneV
      /\ CameTo(i))
       => ByExtension(attribute, LoopUpTo(i),
                      ExtensionDeserialize(ext, last.arg.f[attribute.name]))

\* C17: the derivation, to_dict and dict_to_attrs choose the same handling
\* for a field's type.  A field whose declared type has an extension is
\* described by the extension's fragment, serialized by the extension's
\* serialize and deserialized by the extension's deserialize, also when the
\* type is an attrs class: none of the three expands it as a record.
C17_SameHandling ==
  (last.b \in BridgeIds /\ bridges[last.b].mode = "attrs")
    => \A i \in DOMAIN AttrsClasses[bridges[last.b].cls].attrs :
         AttrsClasses[bridges[last.b].cls].attrs[i].type \in DOMAIN bridges[last.b].extensions
           => SameHandling(last.b, i, AttrsClasses[bridges[last.b].cls].attrs[i],
                           bridges[last.b].extensions[
                             AttrsClasses[bridges[last.b].cls].attrs[i].type])

\* The names of the records that the schema of bridge b has before any field
\* is visited: the envelope's and the data record's.
RootNames(b) ==
  IF bridges[b].mode = "attrs"
    THEN {"CloudEvent", AttrsClasses[bridges[b].cls].name}
    ELSE {"OpenedxSignal", "OpenEdxPublicSignal"}

\* C18: in a derived schema every bare name stands for a record defined from
\* the same class as the field it describes, so that two classes with one
\* __name__ are not described by one definition, and no nested field defines
\* a record under the name of the data record or of the envelope.
C18_NamesResolve ==
  \A b \in Built :
    \A v \in Visits(b) :
      /\ v.out = "reference"
           => \E w \in Visits(b) : w.out = "definition" /\ w.type = v.type
      /\ v.out = "definition" => AttrsClasses[v.type].name \notin RootNames(b)

====
